---------------------------- MODULE Spec2Model ----------------------------
(***************************************************************************)
(* xcomplex::number::Complex (src/src/number.rs): a pair of IEEE-754       *)
(* binary floating-point numbers and the pure operations over it.          *)
(*                                                                         *)
(* The fields are f64 in the source.  Here they are values of a binary     *)
(* IEEE-754 format of the same shape (sign, significand of PrecBits bits,  *)
(* exponent range 1-MaxExponent .. MaxExponent, gradual underflow, signed  *)
(* zeros, infinities, NaN, round-to-nearest-even) but of reduced width, so *)
(* that every rounding, overflow and underflow case of the arithmetic is   *)
(* reachable by enumeration.                                               *)
(***************************************************************************)
EXTENDS Integers, Sequences, FiniteSets, TLC

(* ------------------------------ bounds --------------------------------- *)
\* significand precision in bits, hidden bit included (53 for f64)
PrecBits == 7
\* largest exponent of a finite value (1023 for f64)
MaxExponent == 4

MinExponent == 1 - MaxExponent
\* exponent of the last significand bit of the smallest / largest binade
Qmin == MinExponent - (PrecBits - 1)
Qmax == MaxExponent - (PrecBits - 1)

(* ---------------------- integer helper functions ----------------------- *)
RECURSIVE Pow2(_)
Pow2(n) == IF n <= 0 THEN 1 ELSE 2 * Pow2(n - 1)

RECURSIVE BitLen(_)
BitLen(m) == IF m = 0 THEN 0 ELSE 1 + BitLen(m \div 2)

Abs(i) == IF i < 0 THEN -i ELSE i
Min(i, j) == IF i <= j THEN i ELSE j
Max(i, j) == IF i >= j THEN i ELSE j

\* floor of the square root of n, by bisection on [lo, hi)
RECURSIVE ISqrtIn(_, _, _)
ISqrtIn(n, lo, hi) ==
    IF hi - lo <= 1 THEN lo
    ELSE LET mid == (lo + hi) \div 2
         IN  IF mid * mid <= n THEN ISqrtIn(n, mid, hi) ELSE ISqrtIn(n, lo, mid)
ISqrt(n) == ISqrtIn(n, 0, Pow2((BitLen(n) + 1) \div 2))

(* ------------------------- the f64 value type -------------------------- *)
\* A float is [k, s, m, q]: class k, sign s (1 is negative), and for a
\* finite value the magnitude m * 2^q with m < 2^PrecBits, normalised
\* (m >= 2^(PrecBits-1)) unless q = Qmin (subnormal or zero).
NaN == [k |-> "nan", s |-> 0, m |-> 0, q |-> 0]
Inf(s) == [k |-> "inf", s |-> s, m |-> 0, q |-> 0]
Zero(s) == [k |-> "fin", s |-> s, m |-> 0, q |-> Qmin]
Fin(s, m, q) == [k |-> "fin", s |-> s, m |-> m, q |-> q]

IsNaN(x) == x.k = "nan"
IsInf(x) == x.k = "inf"
IsFinite(x) == x.k = "fin"
IsZero(x) == x.k = "fin" /\ x.m = 0
\* normal: finite, non-zero, not subnormal
IsNormal(x) == x.k = "fin" /\ x.m >= Pow2(PrecBits - 1)

\* every value of the format
Floats ==
    {NaN} \cup {Inf(s) : s \in {0, 1}}
          \cup {Fin(s, m, Qmin) : s \in {0, 1}, m \in 0 .. Pow2(PrecBits - 1) - 1}
          \cup {Fin(s, m, q) : s \in {0, 1},
                               m \in Pow2(PrecBits - 1) .. Pow2(PrecBits) - 1,
                               q \in Qmin .. Qmax}

MaxFinite(s) == Fin(s, Pow2(PrecBits) - 1, Qmax)
MinNormal(s) == Fin(s, Pow2(PrecBits - 1), Qmin)
One == Fin(0, Pow2(PrecBits - 1), 1 - PrecBits)
Two == Fin(0, Pow2(PrecBits - 1), 2 - PrecBits)
MinSubnormal(s) == Fin(s, 1, Qmin)

\* a finite value as a signed integer count of 2^Qmin
Units(x) == (IF x.s = 1 THEN -1 ELSE 1) * x.m * Pow2(x.q - Qmin)

\* Round-to-nearest-even of the exact magnitude (M + f) * 2^E, 0 <= f < 1,
\* where sticky says f > 0 (then M has at least PrecBits + 2 bits).
Round(s, M, E, sticky) ==
    IF M = 0 THEN Zero(s)
    ELSE
    LET L == BitLen(M)
        q0 == Max(E + L - PrecBits, Qmin)
        shift == q0 - E
    IN  IF shift <= 0 THEN Fin(s, M * Pow2(-shift), q0)
        ELSE IF shift > L + 1 THEN Zero(s)
        ELSE
        LET keep == M \div Pow2(shift)
            rem == M % Pow2(shift)
            half == Pow2(shift - 1)
            up == \/ rem > half
                  \/ rem = half /\ (sticky \/ keep % 2 = 1)
            m1 == IF up THEN keep + 1 ELSE keep
            carry == m1 = Pow2(PrecBits)
            m2 == IF carry THEN Pow2(PrecBits - 1) ELSE m1
            q2 == IF carry THEN q0 + 1 ELSE q0
        IN  IF q2 > Qmax THEN Inf(s) ELSE Fin(s, m2, q2)

\* an i32 as f64 (exact: the integers used fit the precision)
FromInt(i) == IF i = 0 THEN Zero(0)
              ELSE Round(IF i < 0 THEN 1 ELSE 0, Abs(i), 0, FALSE)

\* f64 unary minus
fneg(x) == IF IsNaN(x) THEN NaN ELSE [x EXCEPT !.s = 1 - x.s]

\* f64 +
fadd(x, y) ==
    IF IsNaN(x) \/ IsNaN(y) THEN NaN
    ELSE IF IsInf(x) THEN (IF IsInf(y) /\ y.s # x.s THEN NaN ELSE x)
    ELSE IF IsInf(y) THEN y
    ELSE LET sum == Units(x) + Units(y)
         IN  IF sum = 0
             THEN (IF x.s = 1 /\ y.s = 1 THEN Zero(1) ELSE Zero(0))
             ELSE Round(IF sum < 0 THEN 1 ELSE 0, Abs(sum), Qmin, FALSE)

\* f64 -
fsub(x, y) == fadd(x, fneg(y))

\* f64 *
fmul(x, y) ==
    IF IsNaN(x) \/ IsNaN(y) THEN NaN
    ELSE LET s == (x.s + y.s) % 2
         IN  IF IsInf(x) \/ IsInf(y)
             THEN (IF IsZero(x) \/ IsZero(y) THEN NaN ELSE Inf(s))
             ELSE Round(s, x.m * y.m, x.q + y.q, FALSE)

\* f64 /
fdiv(x, y) ==
    IF IsNaN(x) \/ IsNaN(y) THEN NaN
    ELSE LET s == (x.s + y.s) % 2
         IN  IF IsInf(x) THEN (IF IsInf(y) THEN NaN ELSE Inf(s))
             ELSE IF IsInf(y) THEN Zero(s)
             ELSE IF IsZero(y) THEN (IF IsZero(x) THEN NaN ELSE Inf(s))
             ELSE IF IsZero(x) THEN Zero(s)
             ELSE LET k == PrecBits + 2 + BitLen(y.m) - BitLen(x.m)
                      N == x.m * Pow2(k)
                  IN  Round(s, N \div y.m, x.q - y.q - k, N % y.m # 0)

\* f64::sqrt (correctly rounded)
fsqrt(x) ==
    IF IsNaN(x) THEN NaN
    ELSE IF IsZero(x) THEN x
    ELSE IF x.s = 1 THEN NaN
    ELSE IF IsInf(x) THEN x
    ELSE LET k0 == 2 * PrecBits + 3 - BitLen(x.m)
             k == IF (x.q - k0) % 2 = 0 THEN k0 ELSE k0 + 1
             N == x.m * Pow2(k)
             r == ISqrt(N)
         IN  Round(0, r, (x.q - k) \div 2, r * r # N)

\* f64 ==, !=, >=, <= : every comparison with a NaN is false, except !=
feq(x, y) ==
    /\ ~IsNaN(x) /\ ~IsNaN(y)
    /\ \/ IsInf(x) /\ IsInf(y) /\ x.s = y.s
       \/ IsFinite(x) /\ IsFinite(y) /\ Units(x) = Units(y)
fne(x, y) ==
    \/ IsNaN(x) \/ IsNaN(y)
    \/ x.k # y.k
    \/ IsInf(x) /\ x.s # y.s
    \/ IsFinite(x) /\ (x.m # y.m \/ (x.m # 0 /\ (x.s # y.s \/ x.q # y.q)))
fle(x, y) ==
    /\ ~IsNaN(x) /\ ~IsNaN(y)
    /\ \/ IsInf(x) /\ x.s = 1
       \/ IsInf(y) /\ y.s = 0
       \/ IsFinite(x) /\ IsFinite(y) /\ Units(x) <= Units(y)
fge(x, y) == fle(y, x)

(* ------------- the platform's math library (libm) on f64 --------------- *)
\* exp, ln, sin, cos, atan2 and powf are not correctly rounded; each call
\* returns a neighbour of the exact result.  They are modelled by the SET
\* of floats a call may return: the exact value is enclosed in an interval
\* <<lo, hi>> of fixed-point numbers (count of 2^-FX), and every float from
\* the one just below lo to the one just above hi is a possible result.
\* The values IEEE-754 / C Annex F fix exactly (at zeros, infinities, NaN,
\* exp(0), ln(1), ...) are single values.
FX == PrecBits + 6
FxOne == Pow2(FX)

CeilDiv(n, d) == -((-n) \div d)
MulLo(x, y) == (x * y) \div FxOne
MulHi(x, y) == CeilDiv(x * y, FxOne)

\* an enclosure given in counts of 2^-24, in counts of 2^-FX
Narrow(c) == <<c[1] \div Pow2(24 - FX), CeilDiv(c[2], Pow2(24 - FX))>>
PiQuarter24 == <<13176794, 13176795>>
PiQuarter == Narrow(PiQuarter24)
PiHalf == Narrow(<<2 * PiQuarter24[1], 2 * PiQuarter24[2]>>)
ThreePiQuarter == Narrow(<<3 * PiQuarter24[1], 3 * PiQuarter24[2]>>)
Pi == Narrow(<<4 * PiQuarter24[1], 4 * PiQuarter24[2]>>)
Ln2 == Narrow(<<11629079, 11629080>>)

NegIv(iv) == <<-iv[2], -iv[1]>>

\* a finite float, exactly, in counts of 2^-FX
FxOf(x) == Units(x) * Pow2(Qmin + FX)

\* the finite magnitudes in increasing order: 0, 1, ..., MaxOrd; then Inf
OrdOf(m, q) == m + (q - Qmin) * Pow2(PrecBits - 1)
MaxOrd == OrdOf(Pow2(PrecBits) - 1, Qmax)
FromOrd(s, i) ==
    IF i > MaxOrd THEN Inf(s)
    ELSE IF i < Pow2(PrecBits) THEN Fin(s, i, Qmin)
    ELSE LET e == (i \div Pow2(PrecBits - 1)) - 1
         IN  Fin(s, i - e * Pow2(PrecBits - 1), Qmin + e)

\* the largest magnitude <= v * 2^-FX and the smallest >= it (v >= 0)
MagShift(v) == Max(BitLen(v) - FX - PrecBits, Qmin) + FX
MagOrdDown(v) ==
    IF v = 0 THEN 0
    ELSE LET sh == MagShift(v)
         IN  IF sh <= 0 THEN OrdOf(v * Pow2(-sh), sh - FX)
             ELSE OrdOf(v \div Pow2(sh), sh - FX)
MagOrdUp(v) ==
    IF v = 0 THEN 0
    ELSE LET sh == MagShift(v)
         IN  MagOrdDown(v) + (IF sh > 0 /\ v % Pow2(sh) # 0 THEN 1 ELSE 0)
OrdDown(v) == IF v >= 0 THEN Min(MagOrdDown(v), MaxOrd)
              ELSE -Min(MagOrdUp(-v), MaxOrd + 1)
OrdUp(v) == IF v >= 0 THEN Min(MagOrdUp(v), MaxOrd + 1)
            ELSE -Min(MagOrdDown(-v), MaxOrd)

\* the results a libm call may return when the exact value is in [lo, hi]
FloatsIn(iv) ==
    LET d == OrdDown(iv[1])
        u == OrdUp(iv[2])
    IN  {FromOrd(0, i) : i \in Max(d, 1) .. u}
        \cup {FromOrd(1, -i) : i \in d .. Min(u, -1)}
        \cup (IF d <= 0 /\ 0 <= u /\ iv[2] >= 0 THEN {Zero(0)} ELSE {})
        \cup (IF d <= 0 /\ 0 <= u /\ iv[1] < 0 THEN {Zero(1)} ELSE {})

\* Alternating series T0 - T1 + T2 - ... with decreasing terms, from bounds
\* <<tLo, tHi>> on the current term: a lower and an upper bound of the sum,
\* after 'more' further terms.  The next term is t * x2 / (n+1)(n+2) when
\* fact (sin, cos) and w * x2 with t = w / n otherwise (atan).
RECURSIVE AltLo(_, _, _, _, _), AltHi(_, _, _, _, _)
NextLo(fact, t, x2, n) ==
    IF fact THEN MulLo(t, x2) \div ((n + 1) * (n + 2)) ELSE MulLo(t, x2)
NextHi(fact, t, x2, n) ==
    IF fact THEN CeilDiv(MulHi(t, x2), (n + 1) * (n + 2)) ELSE MulHi(t, x2)
TermLo(fact, t, n) == IF fact THEN t ELSE t \div n
TermHi(fact, t, n) == IF fact THEN t ELSE CeilDiv(t, n)
AltLo(fact, t, x2, n, more) ==
    IF more = 0 THEN 0
    ELSE TermLo(fact, t[1], n)
         - AltHi(fact, <<NextLo(fact, t[1], x2[1], n), NextHi(fact, t[2], x2[2], n)>>,
                 x2, n + 2, more - 1)
AltHi(fact, t, x2, n, more) ==
    IF more = 0 THEN TermHi(fact, t[2], n)
    ELSE TermHi(fact, t[2], n)
         - AltLo(fact, <<NextLo(fact, t[1], x2[1], n), NextHi(fact, t[2], x2[2], n)>>,
                 x2, n + 2, more - 1)

Sq(p) == <<MulLo(p, p), MulHi(p, p)>>

\* sin and cos of a fixed-point p, 0 <= p <= 1: lower and upper bounds
SinPosLo(p) == AltLo(TRUE, <<p, p>>, Sq(p), 1, 4)
SinPosHi(p) == AltHi(TRUE, <<p, p>>, Sq(p), 1, 4)
CosPosLo(p) == AltLo(TRUE, <<FxOne, FxOne>>, Sq(p), 0, 4)
CosPosHi(p) == AltHi(TRUE, <<FxOne, FxOne>>, Sq(p), 0, 4)
SinLoAt(p) == IF p >= 0 THEN SinPosLo(p) ELSE -SinPosHi(-p)
SinHiAt(p) == IF p >= 0 THEN SinPosHi(p) ELSE -SinPosLo(-p)
\* on an interval r within [-1, 1]
SinIv(r) == <<SinLoAt(r[1]), SinHiAt(r[2])>>
CosIv(r) ==
    <<CosPosLo(Max(Abs(r[1]), Abs(r[2]))),
      CosPosHi(IF r[1] <= 0 /\ 0 <= r[2] THEN 0 ELSE Min(Abs(r[1]), Abs(r[2])))>>

\* |x| = k * pi/2 + r with r within [-pi/4, pi/4] (a little more): <<k, r>>
Reduce(x) ==
    LET X == Abs(FxOf(x))
        k == (2 * X + PiHalf[1]) \div (2 * PiHalf[1])
    IN  <<k, <<X - CeilDiv(2 * k * PiQuarter24[2], Pow2(24 - FX)),
               X - ((2 * k * PiQuarter24[1]) \div Pow2(24 - FX))>> >>

\* enclosures of sin|x| and cos|x|
SinAbsIv(x) ==
    LET kr == Reduce(x)
        j == kr[1] % 4
    IN  CASE j = 0 -> SinIv(kr[2])
          [] j = 1 -> CosIv(kr[2])
          [] j = 2 -> NegIv(SinIv(kr[2]))
          [] OTHER -> NegIv(CosIv(kr[2]))
CosAbsIv(x) ==
    LET kr == Reduce(x)
        j == kr[1] % 4
    IN  CASE j = 0 -> CosIv(kr[2])
          [] j = 1 -> NegIv(SinIv(kr[2]))
          [] j = 2 -> NegIv(CosIv(kr[2]))
          [] OTHER -> SinIv(kr[2])

\* f64::sin
fsin(x) ==
    IF IsNaN(x) \/ IsInf(x) THEN {NaN}
    ELSE IF IsZero(x) THEN {x}
    ELSE FloatsIn(IF x.s = 1 THEN NegIv(SinAbsIv(x)) ELSE SinAbsIv(x))

\* f64::cos
fcos(x) ==
    IF IsNaN(x) \/ IsInf(x) THEN {NaN}
    ELSE IF IsZero(x) THEN {One}
    ELSE FloatsIn(CosAbsIv(x))

\* atan of a fixed-point u, 0 <= u <= 1/2 (series), and of p, 0 <= p <= 1
\* (atan p = pi/4 - atan((1-p)/(1+p)) above 1/2): lower and upper bounds
AtanSerLo(u) == AltLo(FALSE, <<u, u>>, Sq(u), 1, 8)
AtanSerHi(u) == AltHi(FALSE, <<u, u>>, Sq(u), 1, 8)
AtanLoAt(p) ==
    IF 2 * p <= FxOne THEN AtanSerLo(p)
    ELSE PiQuarter[1] - AtanSerHi(CeilDiv((FxOne - p) * FxOne, FxOne + p))
AtanHiAt(p) ==
    IF 2 * p <= FxOne THEN AtanSerHi(p)
    ELSE PiQuarter[2] - AtanSerLo(((FxOne - p) * FxOne) \div (FxOne + p))

\* the angle of the point (|x|, |y|), both finite and non-zero, in [0, pi/2]
AngleIv(y, x) ==
    LET Y == Abs(Units(y))
        X == Abs(Units(x))
        lo == Min(X, Y)
        hi == Max(X, Y)
        at == <<AtanLoAt((lo * FxOne) \div hi), AtanHiAt(CeilDiv(lo * FxOne, hi))>>
    IN  IF Y <= X THEN at ELSE <<PiHalf[1] - at[2], PiHalf[2] - at[1]>>

\* f64::atan2, y.atan2(x)
fatan2(y, x) ==
    LET signed(iv) == FloatsIn(IF y.s = 1 THEN NegIv(iv) ELSE iv)
    IN  IF IsNaN(y) \/ IsNaN(x) THEN {NaN}
        ELSE IF IsZero(y) THEN (IF x.s = 0 THEN {y} ELSE signed(Pi))
        ELSE IF IsInf(y)
             THEN (IF IsInf(x)
                   THEN signed(IF x.s = 0 THEN PiQuarter ELSE ThreePiQuarter)
                   ELSE signed(PiHalf))
        ELSE IF IsInf(x) THEN (IF x.s = 0 THEN {Zero(y.s)} ELSE signed(Pi))
        ELSE IF IsZero(x) THEN signed(PiHalf)
        ELSE LET ang == AngleIv(y, x)
             IN  signed(IF x.s = 0 THEN ang ELSE <<Pi[1] - ang[2], Pi[2] - ang[1]>>)

\* Series of positive terms whose ratio is at most 1/2, T(n+1) = T(n)*x/(n+1)
\* (exp) or, with t = w / n, w(n+2) = w(n) * x (atanh): a lower bound, and
\* an upper bound that adds twice the first term left out.
RECURSIVE PosLo(_, _, _, _, _), PosHi(_, _, _, _, _)
PosLo(fact, t, x, n, more) ==
    IF more = 0 THEN 0
    ELSE TermLo(fact, t, n)
         + PosLo(fact, IF fact THEN MulLo(t, x) \div (n + 1) ELSE MulLo(t, x),
                 x, IF fact THEN n + 1 ELSE n + 2, more - 1)
PosHi(fact, t, x, n, more) ==
    IF more = 0 THEN 2 * TermHi(fact, t, n)
    ELSE TermHi(fact, t, n)
         + PosHi(fact, IF fact THEN CeilDiv(MulHi(t, x), n + 1) ELSE MulHi(t, x),
                 x, IF fact THEN n + 1 ELSE n + 2, more - 1)

\* e^v for a fixed-point v: lower and upper bounds.  v = k ln2 + r with
\* 0 <= r < ln2 (a little more); beyond the format's range the bound is 0
\* or the overflow threshold.
Overflow == Pow2(MaxExponent + 1) * FxOne
ExpScale(e, k, up) ==
    IF k >= 0 THEN e * Pow2(k)
    ELSE IF -k > FX + 2 THEN (IF up THEN 1 ELSE 0)
    ELSE IF up THEN CeilDiv(e, Pow2(-k)) ELSE e \div Pow2(-k)
ExpLoAt(v) ==
    IF v >= (MaxExponent + 1) * FxOne THEN Overflow
    ELSE IF v <= (Qmin - 2) * FxOne THEN 0
    ELSE LET k == IF v >= 0 THEN v \div Ln2[2] ELSE v \div Ln2[1]
             r == IF v >= 0 THEN v - k * Ln2[2] ELSE v - k * Ln2[1]
         IN  ExpScale(PosLo(TRUE, FxOne, r, 0, 9), k, FALSE)
ExpHiAt(v) ==
    IF v >= (MaxExponent + 1) * FxOne THEN 2 * Overflow
    ELSE IF v <= (Qmin - 2) * FxOne THEN 1
    ELSE LET k == IF v >= 0 THEN v \div Ln2[2] ELSE v \div Ln2[1]
             r == IF v >= 0 THEN v - k * Ln2[1] ELSE v - k * Ln2[2]
         IN  ExpScale(PosHi(TRUE, FxOne, r, 0, 9), k, TRUE)
\* results of an exponential whose exponent is in iv: never a negative zero
ExpFloats(iv) == FloatsIn(<<ExpLoAt(iv[1]), ExpHiAt(iv[2])>>) \ {Zero(1)}

\* f64::exp
fexp(x) ==
    IF IsNaN(x) THEN {NaN}
    ELSE IF IsInf(x) THEN (IF x.s = 0 THEN {x} ELSE {Zero(0)})
    ELSE IF IsZero(x) THEN {One}
    ELSE ExpFloats(<<FxOf(x), FxOf(x)>>)

\* ln of a finite x > 0: x = f * 2^e with 1 <= f < 2 and
\* ln f = 2 atanh((f-1)/(f+1))
LnIv(x) ==
    LET L == BitLen(x.m)
        H == Pow2(L - 1)
        e == x.q + L - 1
        wLo == ((x.m - H) * FxOne) \div (x.m + H)
        wHi == CeilDiv((x.m - H) * FxOne, x.m + H)
        fLo == 2 * PosLo(FALSE, wLo, MulLo(wLo, wLo), 1, 6)
        fHi == 2 * PosHi(FALSE, wHi, MulHi(wHi, wHi), 1, 6)
    IN  IF e >= 0 THEN <<e * Ln2[1] + fLo, e * Ln2[2] + fHi>>
        ELSE <<e * Ln2[2] + fLo, e * Ln2[1] + fHi>>

\* f64::ln
fln(x) ==
    IF IsNaN(x) THEN {NaN}
    ELSE IF IsZero(x) THEN {Inf(1)}
    ELSE IF x.s = 1 THEN {NaN}
    ELSE IF IsInf(x) THEN {x}
    ELSE IF x = One THEN {Zero(0)}
    ELSE FloatsIn(LnIv(x))

\* whether a finite float is an integer, and an odd one
IsInteger(x) == x.q >= 0 \/ x.m % Pow2(-x.q) = 0
IsOddInteger(x) ==
    /\ x.m # 0
    /\ IsInteger(x)
    /\ (IF x.q > 0 THEN FALSE
        ELSE (x.m \div Pow2(-x.q)) % 2 = 1)

\* f64::powf (C pow); the general case is e^(y ln|x|)
fpowf(x, y) ==
    IF ~IsNaN(y) /\ IsZero(y) THEN {One}
    ELSE IF x = One THEN {One}
    ELSE IF IsNaN(x) \/ IsNaN(y) THEN {NaN}
    ELSE LET odd == IsFinite(y) /\ IsOddInteger(y)
             rs == IF x.s = 1 /\ odd THEN 1 ELSE 0
             big == IsInf(x) \/ (IsFinite(x) /\ Abs(Units(x)) > Units(One))
         IN  IF IsInf(y)
             THEN (IF IsFinite(x) /\ Abs(Units(x)) = Units(One) THEN {One}
                   ELSE IF big = (y.s = 0) THEN {Inf(0)} ELSE {Zero(0)})
             ELSE IF IsZero(x) THEN (IF y.s = 1 THEN {Inf(rs)} ELSE {Zero(rs)})
             ELSE IF IsInf(x) THEN (IF y.s = 1 THEN {Zero(rs)} ELSE {Inf(rs)})
             ELSE IF x.s = 1 /\ ~IsInteger(y) THEN {NaN}
             ELSE LET l == LnIv(x)
                      p == <<y.m * l[1], y.m * l[2]>>
                      sc == IF y.q >= 0
                            THEN <<p[1] * Pow2(y.q), p[2] * Pow2(y.q)>>
                            ELSE <<p[1] \div Pow2(-y.q), CeilDiv(p[2], Pow2(-y.q))>>
                      mag == ExpFloats(IF y.s = 1 THEN NegIv(sc) ELSE sc)
                  IN  IF rs = 1 THEN {fneg(r) : r \in mag} ELSE mag

\* f64::powi: the compiler's integer power routine, by repeated squaring
\* (the reciprocal of the power for a negative n)
RECURSIVE PowiLoop(_, _, _)
PowiLoop(r, x, n) ==
    LET r1 == IF n % 2 = 1 THEN fmul(r, x) ELSE r
    IN  IF n \div 2 = 0 THEN r1 ELSE PowiLoop(r1, fmul(x, x), n \div 2)
fpowi(x, n) ==
    IF n < 0 THEN fdiv(One, PowiLoop(One, x, -n)) ELSE PowiLoop(One, x, n)

(* --------------------------- struct Complex ---------------------------- *)
\* Complex::new
new(re, im) == [re |-> re, im |-> im]

\* norm with the squares subtracted
normDifference(self) ==
    fsqrt(fsub(fmul(self.re, self.re), fmul(self.im, self.im)))

\* Complex::norm
norm(self) == fsqrt(fadd(fmul(self.re, self.re), fmul(self.im, self.im)))

\* conj negating the real part
conjNegatesRe(self) == [re |-> fneg(self.re), im |-> self.im]

\* Complex::conj
conj(self) == [re |-> self.re, im |-> fneg(self.im)]

\* add taking the right operand's real part for both fields
addCrossed(self, rhs) ==
    [re |-> fadd(self.re, rhs.re), im |-> fadd(self.im, rhs.re)]

\* impl Add for Complex
add(self, rhs) == [re |-> fadd(self.re, rhs.re), im |-> fadd(self.im, rhs.im)]

\* mul with the sign of the real part's second product lost
mulSignLost(self, rhs) ==
    [re |-> fadd(fmul(self.re, rhs.re), fmul(self.im, rhs.im)),
     im |-> fadd(fmul(self.re, rhs.im), fmul(self.im, rhs.re))]

\* impl Mul for Complex
mul(self, rhs) ==
    [re |-> fsub(fmul(self.re, rhs.re), fmul(self.im, rhs.im)),
     im |-> fadd(fmul(self.re, rhs.im), fmul(self.im, rhs.re))]

\* impl Sub for Complex
sub(self, rhs) == [re |-> fsub(self.re, rhs.re), im |-> fsub(self.im, rhs.im)]

\* div with the numerators of re and im exchanged
divSwapped(self, rhs) ==
    LET d == fadd(fmul(rhs.re, rhs.re), fmul(rhs.im, rhs.im))
    IN  [re |-> fdiv(fsub(fmul(self.im, rhs.re), fmul(self.re, rhs.im)), d),
         im |-> fdiv(fadd(fmul(self.re, rhs.re), fmul(self.im, rhs.im)), d)]

\* div answering (0, 0) for a zero divisor instead of dividing
divGuarded(self, rhs) ==
    LET d == fadd(fmul(rhs.re, rhs.re), fmul(rhs.im, rhs.im))
    IN  IF IsZero(d)
        THEN [re |-> Zero(0), im |-> Zero(0)]
        ELSE [re |-> fdiv(fadd(fmul(self.re, rhs.re), fmul(self.im, rhs.im)), d),
              im |-> fdiv(fsub(fmul(self.im, rhs.re), fmul(self.re, rhs.im)), d)]

\* impl Div for Complex
div(self, rhs) ==
    LET d == fadd(fmul(rhs.re, rhs.re), fmul(rhs.im, rhs.im))
    IN  [re |-> fdiv(fadd(fmul(self.re, rhs.re), fmul(self.im, rhs.im)), d),
         im |-> fdiv(fsub(fmul(self.im, rhs.re), fmul(self.re, rhs.im)), d)]

\* ne demanding that both fields differ
neBothFields(self, other) ==
    fne(self.re, other.re) /\ fne(self.im, other.im)

\* impl PartialEq for Complex
eq(self, other) == feq(self.re, other.re) /\ feq(self.im, other.im)
ne(self, other) == fne(self.re, other.re) \/ fne(self.im, other.im)

\* Complex::arg: the values self.im.atan2(self.re) may return
arg(self) == fatan2(self.im, self.re)

\* Complex::exp
exp(self) ==
    {[re |-> fmul(e, c), im |-> fmul(e, s)] :
        e \in fexp(self.re), c \in fcos(self.im), s \in fsin(self.im)}

\* r^n * (cos(theta * n), sin(theta * n)) for each value the calls may return
Polar(es, angles) ==
    UNION {{[re |-> fmul(e, c), im |-> fmul(e, s)] :
                e \in es, c \in fcos(t), s \in fsin(t)} : t \in angles}

\* Complex::powf
powf(self, n) ==
    Polar(fpowf(norm(self), n), {fmul(theta, n) : theta \in arg(self)})

\* powi leaving the angle unscaled
powiAngleUnscaled(self, n) ==
    Polar({fpowi(norm(self), n)}, arg(self))

\* Complex::powi (n as f64 is exact)
powi(self, n) ==
    Polar({fpowi(norm(self), n)}, {fmul(theta, FromInt(n)) : theta \in arg(self)})

\* Complex::ln
ln(self) == {[re |-> l, im |-> theta] : l \in fln(norm(self)), theta \in arg(self)}

\* Complex::powc
powc(self, n) == {mul(l, e) : l \in ln(self), e \in exp(n)}

\* Complex::sqrt
sqrt(self) ==
    Polar({fsqrt(norm(self))}, {fdiv(theta, Two) : theta \in arg(self)})

(* ------------------------------ inputs --------------------------------- *)
\* field values handed to the constructor: the special values, both zeros,
\* the ends of the finite range and a few small integers, of either sign
InputMags == {Zero(0), MinSubnormal(0), FromInt(1), FromInt(2), FromInt(3),
              FromInt(4), MaxFinite(0)}
Inputs == {NaN, Inf(0), Inf(1)} \cup InputMags \cup {fneg(x) : x \in InputMags}
ComplexInputs == {new(re, im) : re \in Inputs, im \in Inputs}

(* --------------------------- the state machine ------------------------- *)
\* a, b : the two Complex values constructed by the caller
\* op   : the last call made ("new": none since construction or scope exit)
\* n    : the scalar exponent handed to that call (powf, powi)
\* res  : the value that call returned
VARIABLES a, b, op, n, res
vars == <<a, b, op, n, res>>

None == [re |-> NaN, im |-> NaN]
NoArg == Zero(0)

\* largest |n| handed to powi
MaxPowi == 2
PowiArgs == (-MaxPowi) .. MaxPowi
PowfArgs == {Zero(0), One, Two, fneg(One), fdiv(One, Two), Inf(0), NaN}

\* the second operand of the specification with every operation
ArgVals == {Zero(0), One}
ComplexArgs == {new(re, im) : re \in ArgVals, im \in ArgVals}

InitArith ==
    /\ a \in ComplexInputs
    /\ b \in ComplexInputs
    /\ op = "new"
    /\ n = NoArg
    /\ res = None

Init ==
    /\ a \in ComplexInputs
    /\ b \in ComplexArgs
    /\ op = "new"
    /\ n = NoArg
    /\ res = None

\* a call with scalar argument k returns value; the operands are read only
CallN(name, k, value) ==
    /\ op = "new"
    /\ op' = name
    /\ n' = k
    /\ res' = value
    /\ UNCHANGED <<a, b>>
Call(name, value) == CallN(name, NoArg, value)

Add == Call("add", add(a, b))
Sub == Call("sub", sub(a, b))
Mul == Call("mul", mul(a, b))
Div == Call("div", div(a, b))
Eq == Call("eq", eq(a, b))
Ne == Call("ne", ne(a, b))
\* conj writing its result into the receiver
ConjInPlace ==
    /\ op = "new" /\ op' = "conj" /\ n' = NoArg
    /\ a' = conj(a) /\ res' = conj(a) /\ UNCHANGED b
Conj == Call("conj", conj(a))
Norm == Call("norm", norm(a))
Arg == op = "new" /\ \E v \in arg(a) : Call("arg", v)
Exp == op = "new" /\ \E v \in exp(a) : Call("exp", v)
Ln == op = "new" /\ \E v \in ln(a) : Call("ln", v)
Powf == op = "new" /\ \E k \in PowfArgs : \E v \in powf(a, k) : CallN("powf", k, v)
Powi == op = "new" /\ \E k \in PowiArgs : \E v \in powi(a, k) : CallN("powi", k, v)
Powc == op = "new" /\ \E v \in powc(a, b) : Call("powc", v)
Sqrt == op = "new" /\ \E v \in sqrt(a) : Call("sqrt", v)

\* the returned value goes out of scope
Drop ==
    /\ op # "new"
    /\ op' = "new"
    /\ n' = NoArg
    /\ res' = None
    /\ UNCHANGED <<a, b>>

NextArith == Add \/ Sub \/ Mul \/ Div \/ Eq \/ Ne \/ Conj \/ Norm \/ Drop

Next ==
    \/ Add \/ Sub \/ Mul \/ Div \/ Eq \/ Ne
    \/ Conj \/ Norm \/ Arg \/ Exp \/ Ln \/ Powf \/ Powi \/ Powc \/ Sqrt
    \/ Drop

SpecArith == InitArith /\ [][NextArith]_vars
Spec == Init /\ [][Next]_vars

(* ------------------------------ properties ----------------------------- *)
Finite(c) == IsFinite(c.re) /\ IsFinite(c.im)
IsOrigin(c) == IsZero(c.re) /\ IsZero(c.im)
Mag(x) == Abs(Units(x))

\* an operation result the usual rounding-error bound applies to: finite,
\* and not underflowed (a non-zero product or quotient is a normal number)
ProdOK(x, y) ==
    LET r == fmul(x, y)
    IN  IsFinite(r) /\ (IsZero(x) \/ IsZero(y) \/ IsNormal(r))
QuotOK(x, y) ==
    LET r == fdiv(x, y)
    IN  IsFinite(r) /\ (IsZero(x) \/ IsNormal(r))

\* x and y are the same value up to rounding: both NaN, the same infinity,
\* or finite and no further apart than 2^(ulps - PrecBits) * scale, where
\* scale is a count of 2^Qmin
Near(x, y, ulps, scale) ==
    \/ IsNaN(x) /\ IsNaN(y)
    \/ IsInf(x) /\ IsInf(y) /\ x.s = y.s
    \/ /\ IsFinite(x) /\ IsFinite(y)
       /\ Abs(Units(x) - Units(y)) * Pow2(PrecBits - ulps) <= scale
NearC(c, d, ulps, scale) ==
    Near(c.re, d.re, ulps, scale) /\ Near(c.im, d.im, ulps, scale)

\* C1: the product returned by a * b has re = a.re*b.re - a.im*b.im and
\* im = a.re*b.im + a.im*b.re, each operation an f64 operation; and
\* Complex(1,2) * Complex(3,4) is Complex(-5,10).
C1_MulFormula ==
    /\ op = "mul" =>
          /\ res.re = fsub(fmul(a.re, b.re), fmul(a.im, b.im))
          /\ res.im = fadd(fmul(a.re, b.im), fmul(a.im, b.re))
    /\ (op = "mul" /\ a = new(FromInt(1), FromInt(2))
                   /\ b = new(FromInt(3), FromInt(4)))
          => res = new(FromInt(-5), FromInt(10))
C1_Witness ==
    /\ op = "mul"
    /\ a = new(FromInt(1), FromInt(2))
    /\ b = new(FromInt(3), FromInt(4))

\* C2 as stated: for all finite a and b, (a + b) - b == a.
C2_AddSubAllFinite ==
    (op = "add" /\ Finite(a) /\ Finite(b)) => eq(sub(res, b), a)
\* C2 amended: for all finite a and b whose two field sums a.re + b.re and
\* a.im + b.im are exact (not rounded, hence not overflowed),
\* (a + b) - b == a.
ExactSum(x, y) ==
    IsFinite(fadd(x, y)) /\ Units(fadd(x, y)) = Units(x) + Units(y)
C2_AddSubExact ==
    (op = "add" /\ Finite(a) /\ Finite(b)
        /\ ExactSum(a.re, b.re) /\ ExactSum(a.im, b.im))
    => eq(sub(res, b), a)
C2_Witness ==
    /\ op = "add"
    /\ a = new(FromInt(1), fneg(FromInt(2)))
    /\ b = new(FromInt(3), FromInt(4))
    /\ ExactSum(a.re, b.re) /\ ExactSum(a.im, b.im)
    /\ res = new(FromInt(4), FromInt(2))

\* every product, sum and quotient of a / b, and every product and sum of
\* the multiplication of the quotient q by b, is finite and not underflowed
DivMulOK(x, y, q) ==
    LET d == fadd(fmul(y.re, y.re), fmul(y.im, y.im))
        nre == fadd(fmul(x.re, y.re), fmul(x.im, y.im))
        nim == fsub(fmul(x.im, y.re), fmul(x.re, y.im))
    IN  /\ ProdOK(y.re, y.re) /\ ProdOK(y.im, y.im) /\ IsFinite(d)
        /\ ProdOK(x.re, y.re) /\ ProdOK(x.im, y.im) /\ IsFinite(nre)
        /\ ProdOK(x.im, y.re) /\ ProdOK(x.re, y.im) /\ IsFinite(nim)
        /\ QuotOK(nre, d) /\ QuotOK(nim, d)
        /\ ProdOK(q.re, y.re) /\ ProdOK(q.im, y.im)
        /\ ProdOK(q.re, y.im) /\ ProdOK(q.im, y.re)
        /\ Finite(mul(q, y))

\* C3 as stated: for all finite a and b with b != (0,0), (a / b) * b equals
\* a up to rounding (each field within 16 units of roundoff of a's size).
C3_DivMulAllFinite ==
    (op = "div" /\ Finite(a) /\ Finite(b) /\ ~IsOrigin(b))
    => NearC(mul(res, b), a, 4, Mag(a.re) + Mag(a.im))
\* C3 amended: for all finite a and b with b != (0,0) such that no product,
\* sum or quotient of a / b and of the following multiplication overflows
\* and no product or quotient underflows, each field of (a / b) * b is
\* within 2^(4 - PrecBits) * (|a.re| + |a.im|) of the same field of a;
\* a / b has re = (a.re*b.re + a.im*b.im)/d, im = (a.im*b.re - a.re*b.im)/d
\* with d = b.re^2 + b.im^2.
C3_DivMulNoOverflow ==
    (op = "div" /\ Finite(a) /\ Finite(b) /\ ~IsOrigin(b))
    => /\ LET d == fadd(fmul(b.re, b.re), fmul(b.im, b.im))
          IN  /\ res.re = fdiv(fadd(fmul(a.re, b.re), fmul(a.im, b.im)), d)
              /\ res.im = fdiv(fsub(fmul(a.im, b.re), fmul(a.re, b.im)), d)
       /\ DivMulOK(a, b, res)
             => NearC(mul(res, b), a, 4, Mag(a.re) + Mag(a.im))
C3_Witness ==
    /\ op = "div"
    /\ a = new(FromInt(3), FromInt(1))
    /\ b = new(FromInt(1), FromInt(3))
    /\ DivMulOK(a, b, res)
    /\ mul(res, b) # a

\* C5: a / b with b a zero-magnitude divisor returns (the call is made and
\* has a result) a Complex whose fields are each an infinity or NaN.
NonFinite(x) == IsInf(x) \/ IsNaN(x)
C5_DivByZero ==
    (op = "div" /\ IsOrigin(b)) => NonFinite(res.re) /\ NonFinite(res.im)
C5_Witness ==
    /\ op = "div"
    /\ a = new(FromInt(1), Zero(0))
    /\ b = new(Zero(0), Zero(0))
    /\ NonFinite(res.re) /\ NonFinite(res.im)

\* C6: for every finite a, a.conj() is (a.re, -a.im) and conj of it == a,
\* also when a.im is a zero of either sign.
C6_ConjInvolution ==
    (op = "conj" /\ Finite(a))
    => /\ res.re = a.re
       /\ res.im = fneg(a.im)
       /\ eq(conj(res), a)
C6_Witness ==
    /\ op = "conj"
    /\ a = new(FromInt(3), Zero(1))
    /\ res = new(FromInt(3), Zero(0))

\* C8: for every a with finite fields, a.norm() is sqrt(a.re^2 + a.im^2)
\* in f64 operations and a.norm() >= 0.
C8_NormNonNegative ==
    (op = "norm" /\ Finite(a))
    => /\ res = fsqrt(fadd(fmul(a.re, a.re), fmul(a.im, a.im)))
       /\ fge(res, Zero(0))
C8_Witness ==
    /\ op = "norm"
    /\ a = new(fneg(FromInt(3)), FromInt(4))
    /\ res = FromInt(5)

\* C10: for every a and b, NaN and signed zeros included, a != b holds
\* exactly when a == b does not, and a == b is the field-wise f64 ==.
C10_EqNeConsistent ==
    /\ op = "ne" => res = ~eq(a, b)
    /\ op = "eq" => res = ~ne(a, b)
    /\ op = "eq" => res = (feq(a.re, b.re) /\ feq(a.im, b.im))
C10_Witness ==
    /\ op = "ne"
    /\ IsNaN(a.re)
    /\ a = b
    /\ res = TRUE

\* C4 as stated: for every a and n, a.powc(n) equals exp(n * ln(a)) up to
\* rounding, for some of the values ln and exp may return.
C4_PowcIsPower ==
    op = "powc" =>
        \E l \in ln(a) : \E e \in exp(mul(b, l)) :
            NearC(res, e, 4, Mag(e.re) + Mag(e.im))

\* |x|^2 in units of 2^Qmin, rounded down
NormSqr(x) ==
    (Units(x.re) * Units(x.re) + Units(x.im) * Units(x.im)) \div Pow2(-Qmin)
\* a.re^2 + a.im^2 and norm(a)^2 neither overflow nor underflow, and a * a
\* does not overflow
SquareOK(x) ==
    LET d == fadd(fmul(x.re, x.re), fmul(x.im, x.im))
    IN  /\ IsFinite(d)
        /\ IsOrigin(x) \/ IsNormal(d)
        /\ IsFinite(fpowi(norm(x), 2))
        /\ Finite(mul(x, x))

\* C7 as stated: for every finite a, a.powi(2) equals a * a up to rounding
\* (each field within 32 units of roundoff of |a|^2).
C7_PowiSquareAllFinite ==
    (op = "powi" /\ n = 2 /\ Finite(a))
    => NearC(res, mul(a, a), 5, NormSqr(a))
\* C7 amended: for every finite a such that a.re^2 + a.im^2 and norm(a)^2
\* neither overflow nor underflow and a * a does not overflow, each field
\* of a.powi(2) is within 2^(5 - PrecBits) * |a|^2 of the same field of
\* a * a.
C7_PowiSquareNoOverflow ==
    (op = "powi" /\ n = 2 /\ Finite(a) /\ SquareOK(a))
    => NearC(res, mul(a, a), 5, NormSqr(a))
C7_Witness ==
    /\ op = "powi" /\ n = 2
    /\ a = new(FromInt(1), FromInt(2))
    /\ SquareOK(a)
    /\ mul(a, a) = new(FromInt(-3), FromInt(4))

\* C9: no call changes the Complex values it is given: in every step, of
\* any operation, a and b keep the fields they were constructed with.
C9_OperandsUnchanged == [][a' = a /\ b' = b]_vars
C9_Witness ==
    /\ op = "powc"
    /\ a = new(FromInt(1), FromInt(2))
    /\ b = new(One, One)
    /\ res # None

=============================================================================
